---------------------------- MODULE Spec2Model ----------------------------
(***************************************************************************)
(* Model of the Rulesets client of cloudflare-go (rulesets.go).            *)
(*                                                                         *)
(* Representation.                                                         *)
(*  - A Go string is a TLA+ string; a path is a sequence of such pieces    *)
(*    and fmt.Sprintf is their concatenation.                              *)
(*  - A Go value that can be nil (a pointer, a slice, a map, an error) is  *)
(*    a tagged pair <<tag, payload>>, so that a nil slice and an empty     *)
(*    slice are different values, as they are for reflect.DeepEqual.       *)
(*  - A JSON text is represented by its parse: a tagged pair               *)
(*    <<"null"|"bool"|"num"|"frac"|"str"|"arr"|"obj", payload>>; an object *)
(*    is a function from member names to JSON values.  Bytes that are not  *)
(*    a JSON text are a "raw" body.  What encoding/json does with a Go     *)
(*    value (omitempty, nil, null, type mismatches) is modelled on these   *)
(*    trees by Marshal... and Dec... below.                                *)
(*  - A time.Time is the instant it names.                                 *)
(***************************************************************************)
EXTENDS Integers, Sequences, FiniteSets, TLC

(***************************************************************************)
(* Bounds of the model.                                                    *)
(***************************************************************************)
\* longest rule sequence of a Ruleset drawn as an input
MaxRules == 2

(***************************************************************************)
(* JSON values.                                                            *)
(***************************************************************************)
JNull == <<"null", "">>
JBool(b) == <<"bool", b>>
JNum(n) == <<"num", n>>
\* a JSON number that is not an integer, named by its text
JFrac(s) == <<"frac", s>>
JStr(s) == <<"str", s>>
JArr(s) == <<"arr", s>>
JObj(f) == <<"obj", f>>

\* the object whose members are the <<name, value>> pairs of `members`
ObjOf(members) ==
  JObj([k \in {m[1] : m \in members} |-> (CHOOSE m \in members : m[1] = k)[2]])

HasMember(j, k) == j[1] = "obj" /\ k \in DOMAIN j[2]

(***************************************************************************)
(* Go values that can be nil.                                              *)
(***************************************************************************)
NilErr == <<"nil", "">>
NilPtr == <<"nil", "">>
Ptr(v) == <<"ptr", v>>
NilSlice == <<"nil", <<>> >>
Slice(s) == <<"slice", s>>
NilMap == <<"nil", <<>> >>
Map(f) == <<"map", f>>

IsNil(x) == x[1] = "nil"
\* len() of a slice or a map: 0 for nil
LenOf(x) == IF IsNil(x) THEN 0
            ELSE IF x[1] = "map" THEN Cardinality(DOMAIN x[2]) ELSE Len(x[2])

(***************************************************************************)
(* Strings and instants that encoding/json treats specially.               *)
(***************************************************************************)
\* a Go string holding a byte sequence that is not valid UTF-8
InvalidUTF8 == "\\xff"
\* what json.Marshal writes for it: U+FFFD
ReplacementChar == "\\ufffd"
\* a time.Time whose year is outside [0,9999]: Time.MarshalJSON fails on it
YearOutOfRange == "t-year-10000"
\* the zero time.Time
ZeroTime == "t0"
Instants == {"t1", "t2"}
\* Time.MarshalJSON: the instant's RFC 3339 text
RFC3339(t) ==
  CASE t = "t1" -> "2021-03-01T10:00:00Z"
    [] t = "t2" -> "2021-04-02T11:30:00Z"
    [] OTHER -> "0001-01-01T00:00:00Z"
\* the instants whose RFC 3339 text time.Parse reads back
Parseable == Instants \cup {ZeroTime}

(***************************************************************************)
(* The data model: zero values.                                            *)
(***************************************************************************)
RulesetRuleActionParametersURIPath == [Expression |-> ""]
RulesetRuleActionParametersURIQuery == [Value |-> "", Expression |-> ""]
RulesetRuleActionParametersURI ==
  [Path |-> RulesetRuleActionParametersURIPath,
   Query |-> RulesetRuleActionParametersURIQuery,
   Origin |-> FALSE]
RulesetRuleActionParametersHTTPHeader ==
  [Operation |-> "", Value |-> "", Expression |-> ""]
RulesetRuleActionParameters ==
  [ID |-> "", Ruleset |-> "", Increment |-> 0,
   URI |-> RulesetRuleActionParametersURI,
   Headers |-> NilMap, Products |-> NilSlice]
RulesetRule ==
  [ID |-> "", Version |-> "", Action |-> "", ActionParameters |-> NilPtr,
   Expression |-> "", Description |-> "", LastUpdated |-> NilPtr, Ref |-> "",
   Enabled |-> FALSE, Categories |-> NilSlice, ScoreThreshold |-> 0]
Ruleset ==
  [ID |-> "", Name |-> "", Description |-> "", Kind |-> "", Version |-> "",
   LastUpdated |-> NilPtr, Phase |-> "", Rules |-> NilSlice]


(***************************************************************************)
(* json.Marshal, by the struct tags.  omitempty leaves a member out when   *)
(* the field is false, 0, "", a nil pointer, or a slice or map of length 0 *)
(* (nil or not); a struct-typed field is never left out.  A nil slice or   *)
(* map without omitempty is written as null.                               *)
(***************************************************************************)
MarshalString(s) == JStr(IF s = InvalidUTF8 THEN ReplacementChar ELSE s)
MarshalTime(t) == JStr(RFC3339(t))

Member(k, j) == {<<k, j>>}
OmitEmptyString(k, s) == IF s = "" THEN {} ELSE Member(k, MarshalString(s))
OmitEmptyInt(k, n) == IF n = 0 THEN {} ELSE Member(k, JNum(n))
OmitEmptyBool(k, b) == IF b THEN Member(k, JBool(TRUE)) ELSE {}
OmitEmptyTime(k, p) == IF IsNil(p) THEN {} ELSE Member(k, MarshalTime(p[2]))

MarshalStringSlice(s) ==
  IF IsNil(s) THEN JNull
  ELSE JArr([i \in 1..Len(s[2]) |-> MarshalString(s[2][i])])

MarshalURIPath(p) == ObjOf(OmitEmptyString("expression", p.Expression))

MarshalURIQuery(q) ==
  ObjOf(OmitEmptyString("value", q.Value)
        \cup OmitEmptyString("expression", q.Expression))

MarshalURI(u) ==
  ObjOf(Member("path", MarshalURIPath(u.Path))
        \cup Member("query", MarshalURIQuery(u.Query))
        \cup OmitEmptyBool("origin", u.Origin))

MarshalHTTPHeader(h) ==
  ObjOf(OmitEmptyString("operation", h.Operation)
        \cup OmitEmptyString("value", h.Value)
        \cup OmitEmptyString("expression", h.Expression))

MarshalHeaders(m) ==
  IF IsNil(m) THEN JNull
  ELSE JObj([k \in DOMAIN m[2] |-> MarshalHTTPHeader(m[2][k])])

MarshalActionParameters(p) ==
  ObjOf(OmitEmptyString("id", p.ID)
        \cup OmitEmptyString("ruleset", p.Ruleset)
        \cup OmitEmptyInt("increment", p.Increment)
        \cup Member("uri", MarshalURI(p.URI))
        \cup (IF LenOf(p.Headers) = 0 THEN {}
              ELSE Member("headers", MarshalHeaders(p.Headers)))
        \cup (IF LenOf(p.Products) = 0 THEN {}
              ELSE Member("products", MarshalStringSlice(p.Products))))

MarshalRulesetRule(r) ==
  ObjOf(OmitEmptyString("id", r.ID)
        \cup OmitEmptyString("version", r.Version)
        \cup Member("action", MarshalString(r.Action))
        \cup (IF IsNil(r.ActionParameters) THEN {}
              ELSE Member("action_parameters",
                          MarshalActionParameters(r.ActionParameters[2])))
        \cup Member("expression", MarshalString(r.Expression))
        \cup Member("description", MarshalString(r.Description))
        \cup OmitEmptyTime("last_updated", r.LastUpdated)
        \cup OmitEmptyString("ref", r.Ref)
        \cup Member("enabled", JBool(r.Enabled))
        \cup (IF LenOf(r.Categories) = 0 THEN {}
              ELSE Member("categories", MarshalStringSlice(r.Categories)))
        \cup OmitEmptyInt("score_threshold", r.ScoreThreshold))

MarshalRules(rules) ==
  IF IsNil(rules) THEN JNull
  ELSE JArr([i \in 1..Len(rules[2]) |-> MarshalRulesetRule(rules[2][i])])

\* MarshalRuleset with the rules member tagged omitempty
MarshalRulesetOmitEmptyRules(rs) ==
  ObjOf(OmitEmptyString("id", rs.ID)
        \cup Member("name", MarshalString(rs.Name))
        \cup Member("description", MarshalString(rs.Description))
        \cup Member("kind", MarshalString(rs.Kind))
        \cup OmitEmptyString("version", rs.Version)
        \cup OmitEmptyTime("last_updated", rs.LastUpdated)
        \cup Member("phase", MarshalString(rs.Phase))
        \cup (IF LenOf(rs.Rules) = 0 THEN {}
              ELSE Member("rules", MarshalRules(rs.Rules))))

MarshalRuleset(rs) ==
  ObjOf(OmitEmptyString("id", rs.ID)
        \cup Member("name", MarshalString(rs.Name))
        \cup Member("description", MarshalString(rs.Description))
        \cup Member("kind", MarshalString(rs.Kind))
        \cup OmitEmptyString("version", rs.Version)
        \cup OmitEmptyTime("last_updated", rs.LastUpdated)
        \cup Member("phase", MarshalString(rs.Phase))
        \cup Member("rules", MarshalRules(rs.Rules)))

MarshalUpdateRulesetRequest(p) ==
  ObjOf(Member("description", MarshalString(p.Description))
        \cup Member("rules", MarshalRules(p.Rules)))

\* Time.MarshalJSON fails on a year outside [0,9999], and json.Marshal with it
TimeEncodable(p) == IsNil(p) \/ p[2] # YearOutOfRange
RulesEncodable(rules) ==
  IsNil(rules) \/ \A i \in 1..Len(rules[2]) : TimeEncodable(rules[2][i].LastUpdated)
RulesetEncodable(rs) == TimeEncodable(rs.LastUpdated) /\ RulesEncodable(rs.Rules)

(***************************************************************************)
(* json.Unmarshal into a Go value.  For each type, Dec...(j, old) is the   *)
(* value the target holds after JSON value j was decoded into a target     *)
(* holding old, and Err...(j) is the first error of that decoding, nil     *)
(* when there is none.  null leaves a string, number, bool or struct       *)
(* unchanged and sets a pointer, slice or map to nil; a member that is     *)
(* absent leaves its field unchanged; a JSON value of the wrong type       *)
(* leaves the target unchanged, is recorded as the error, and decoding     *)
(* goes on, so that a failed decode leaves a partly filled target.         *)
(***************************************************************************)
SyntaxError == <<"json", "SyntaxError">>
UnmarshalTypeError == <<"json", "UnmarshalTypeError">>
TimeParseError == <<"json", "Time.UnmarshalJSON">>

Decoded(v, err) == [v |-> v, err |-> err]

\* the first error of a sequence of errors, nil when there is none
FirstErr(errs) ==
  IF \A i \in DOMAIN errs : IsNil(errs[i]) THEN NilErr
  ELSE errs[CHOOSE i \in DOMAIN errs :
              ~IsNil(errs[i]) /\ \A k \in DOMAIN errs : k < i => IsNil(errs[k])]

\* the member k of object j decoded into a field holding old
DecField(j, k, old, Dec(_, _)) == IF k \in DOMAIN j[2] THEN Dec(j[2][k], old) ELSE old
ErrField(j, k, Err(_)) == IF k \in DOMAIN j[2] THEN Err(j[2][k]) ELSE NilErr

\* a struct: null leaves it, an object sets its fields, anything else is an error
ErrStruct(j, errs) ==
  CASE j[1] = "null" -> NilErr
    [] j[1] = "obj" -> FirstErr(errs)
    [] OTHER -> UnmarshalTypeError

\* a slice: null and an array set it, anything else is an error
ErrSlice(j, Err(_)) ==
  CASE j[1] = "null" -> NilErr
    [] j[1] = "arr" -> FirstErr([i \in 1..Len(j[2]) |-> Err(j[2][i])])
    [] OTHER -> UnmarshalTypeError

DecString(j, old) == IF j[1] = "str" THEN j[2] ELSE old
ErrString(j) == IF j[1] \in {"str", "null"} THEN NilErr ELSE UnmarshalTypeError

DecInt(j, old) == IF j[1] = "num" THEN j[2] ELSE old
ErrInt(j) == IF j[1] \in {"num", "null"} THEN NilErr ELSE UnmarshalTypeError

DecBool(j, old) == IF j[1] = "bool" THEN j[2] ELSE old
ErrBool(j) == IF j[1] \in {"bool", "null"} THEN NilErr ELSE UnmarshalTypeError

\* *time.Time: the pointer is allocated before Time.UnmarshalJSON runs
TimeText(j) == j[1] = "str" /\ \E t \in Parseable : RFC3339(t) = j[2]
DecTime(j, old) ==
  CASE j[1] = "null" -> NilPtr
    [] TimeText(j) -> Ptr(CHOOSE t \in Parseable : RFC3339(t) = j[2])
    [] OTHER -> Ptr(IF IsNil(old) THEN ZeroTime ELSE old[2])
ErrTime(j) == IF j[1] = "null" \/ TimeText(j) THEN NilErr ELSE TimeParseError

\* a []string, or a slice of a string type
DecStringSlice(j, old) ==
  CASE j[1] = "null" -> NilSlice
    [] j[1] = "arr" -> Slice([i \in 1..Len(j[2]) |-> DecString(j[2][i], "")])
    [] OTHER -> old
ErrStringSlice(j) == ErrSlice(j, ErrString)

DecURIPath(j, old) ==
  IF j[1] # "obj" THEN old
  ELSE [Expression |-> DecField(j, "expression", old.Expression, DecString)]
ErrURIPath(j) == ErrStruct(j, <<ErrField(j, "expression", ErrString)>>)

DecURIQuery(j, old) ==
  IF j[1] # "obj" THEN old
  ELSE [Value |-> DecField(j, "value", old.Value, DecString),
        Expression |-> DecField(j, "expression", old.Expression, DecString)]
ErrURIQuery(j) ==
  ErrStruct(j, <<ErrField(j, "value", ErrString),
                 ErrField(j, "expression", ErrString)>>)

DecURI(j, old) ==
  IF j[1] # "obj" THEN old
  ELSE [Path |-> DecField(j, "path", old.Path, DecURIPath),
        Query |-> DecField(j, "query", old.Query, DecURIQuery),
        Origin |-> DecField(j, "origin", old.Origin, DecBool)]
ErrURI(j) ==
  ErrStruct(j, <<ErrField(j, "path", ErrURIPath), ErrField(j, "query", ErrURIQuery),
                 ErrField(j, "origin", ErrBool)>>)

DecHTTPHeader(j, old) ==
  IF j[1] # "obj" THEN old
  ELSE [Operation |-> DecField(j, "operation", old.Operation, DecString),
        Value |-> DecField(j, "value", old.Value, DecString),
        Expression |-> DecField(j, "expression", old.Expression, DecString)]
ErrHTTPHeader(j) ==
  ErrStruct(j, <<ErrField(j, "operation", ErrString), ErrField(j, "value", ErrString),
                 ErrField(j, "expression", ErrString)>>)

\* map[string]RulesetRuleActionParametersHTTPHeader: a nil map is made, the
\* entries of the object are decoded into fresh elements and stored
DecHeaders(j, old) ==
  CASE j[1] = "null" -> NilMap
    [] j[1] = "obj" ->
         Map([k \in DOMAIN j[2] \cup DOMAIN old[2] |->
                IF k \in DOMAIN j[2]
                THEN DecHTTPHeader(j[2][k], RulesetRuleActionParametersHTTPHeader)
                ELSE old[2][k]])
    [] OTHER -> old
ErrHeaders(j) ==
  CASE j[1] = "null" -> NilErr
    [] j[1] = "obj" ->
         IF \A k \in DOMAIN j[2] : IsNil(ErrHTTPHeader(j[2][k])) THEN NilErr
         ELSE UnmarshalTypeError
    [] OTHER -> UnmarshalTypeError

DecActionParametersStruct(j, old) ==
  IF j[1] # "obj" THEN old
  ELSE [ID |-> DecField(j, "id", old.ID, DecString),
        Ruleset |-> DecField(j, "ruleset", old.Ruleset, DecString),
        Increment |-> DecField(j, "increment", old.Increment, DecInt),
        URI |-> DecField(j, "uri", old.URI, DecURI),
        Headers |-> DecField(j, "headers", old.Headers, DecHeaders),
        Products |-> DecField(j, "products", old.Products, DecStringSlice)]
ErrActionParameters(j) ==
  ErrStruct(j, <<ErrField(j, "id", ErrString), ErrField(j, "ruleset", ErrString),
                 ErrField(j, "increment", ErrInt), ErrField(j, "uri", ErrURI),
                 ErrField(j, "headers", ErrHeaders),
                 ErrField(j, "products", ErrStringSlice)>>)

\* *RulesetRuleActionParameters: null sets the pointer to nil, anything else is
\* decoded into what it points to, a zero value when it was nil
DecActionParameters(j, old) ==
  IF j[1] = "null" THEN NilPtr
  ELSE Ptr(DecActionParametersStruct(
             j, IF IsNil(old) THEN RulesetRuleActionParameters ELSE old[2]))

DecRulesetRule(j, old) ==
  IF j[1] # "obj" THEN old
  ELSE [ID |-> DecField(j, "id", old.ID, DecString),
        Version |-> DecField(j, "version", old.Version, DecString),
        Action |-> DecField(j, "action", old.Action, DecString),
        ActionParameters |-> DecField(j, "action_parameters", old.ActionParameters,
                                      DecActionParameters),
        Expression |-> DecField(j, "expression", old.Expression, DecString),
        Description |-> DecField(j, "description", old.Description, DecString),
        LastUpdated |-> DecField(j, "last_updated", old.LastUpdated, DecTime),
        Ref |-> DecField(j, "ref", old.Ref, DecString),
        Enabled |-> DecField(j, "enabled", old.Enabled, DecBool),
        Categories |-> DecField(j, "categories", old.Categories, DecStringSlice),
        ScoreThreshold |-> DecField(j, "score_threshold", old.ScoreThreshold, DecInt)]
ErrRulesetRule(j) ==
  ErrStruct(j, <<ErrField(j, "id", ErrString), ErrField(j, "version", ErrString),
                 ErrField(j, "action", ErrString),
                 ErrField(j, "action_parameters", ErrActionParameters),
                 ErrField(j, "expression", ErrString),
                 ErrField(j, "description", ErrString),
                 ErrField(j, "last_updated", ErrTime), ErrField(j, "ref", ErrString),
                 ErrField(j, "enabled", ErrBool),
                 ErrField(j, "categories", ErrStringSlice),
                 ErrField(j, "score_threshold", ErrInt)>>)

\* []RulesetRule: the slice is reset and each element decoded into a zero value
DecRules(j, old) ==
  CASE j[1] = "null" -> NilSlice
    [] j[1] = "arr" -> Slice([i \in 1..Len(j[2]) |-> DecRulesetRule(j[2][i], RulesetRule)])
    [] OTHER -> old
ErrRules(j) == ErrSlice(j, ErrRulesetRule)

DecRuleset(j, old) ==
  IF j[1] # "obj" THEN old
  ELSE [ID |-> DecField(j, "id", old.ID, DecString),
        Name |-> DecField(j, "name", old.Name, DecString),
        Description |-> DecField(j, "description", old.Description, DecString),
        Kind |-> DecField(j, "kind", old.Kind, DecString),
        Version |-> DecField(j, "version", old.Version, DecString),
        LastUpdated |-> DecField(j, "last_updated", old.LastUpdated, DecTime),
        Phase |-> DecField(j, "phase", old.Phase, DecString),
        Rules |-> DecField(j, "rules", old.Rules, DecRules)]
ErrRuleset(j) ==
  ErrStruct(j, <<ErrField(j, "id", ErrString), ErrField(j, "name", ErrString),
                 ErrField(j, "description", ErrString), ErrField(j, "kind", ErrString),
                 ErrField(j, "version", ErrString),
                 ErrField(j, "last_updated", ErrTime), ErrField(j, "phase", ErrString),
                 ErrField(j, "rules", ErrRules)>>)

\* []Ruleset
DecRulesets(j, old) ==
  CASE j[1] = "null" -> NilSlice
    [] j[1] = "arr" -> Slice([i \in 1..Len(j[2]) |-> DecRuleset(j[2][i], Ruleset)])
    [] OTHER -> old
ErrRulesets(j) == ErrSlice(j, ErrRuleset)

(***************************************************************************)
(* Input values.                                                           *)
(***************************************************************************)
HeaderChoices ==
  {NilMap, Map(<<>>),
   Map("X-Remove" :> [Operation |-> "remove", Value |-> "", Expression |-> ""]),
   Map(("X-Set" :> [Operation |-> "set", Value |-> "v", Expression |-> ""])
       @@ ("X-Expr" :> [Operation |-> "set", Value |-> "", Expression |-> "ip.src"]))}

ProductChoices ==
  {NilSlice, Slice(<<>>), Slice(<<"waf">>), Slice(<<"waf", "bic">>),
   Slice(<<"bic", "waf">>)}

CategoryChoices ==
  {NilSlice, Slice(<<>>), Slice(<<"wordpress">>), Slice(<<"sqli", "xss">>)}

ActionParametersChoices ==
  {NilPtr, Ptr(RulesetRuleActionParameters),
   Ptr([RulesetRuleActionParameters EXCEPT
          !.ID = "4814384a9e5d4991b9815dcfc25d2f1f", !.Ruleset = "current",
          !.Increment = 3,
          !.URI = [Path |-> [Expression |-> "regex_replace(http.request.uri.path)"],
                   Query |-> [Value |-> "a=b", Expression |-> ""],
                   Origin |-> TRUE]])}
  \cup {Ptr([RulesetRuleActionParameters EXCEPT !.Headers = h]) : h \in HeaderChoices}
  \cup {Ptr([RulesetRuleActionParameters EXCEPT !.Products = p]) : p \in ProductChoices}

BlockRule ==
  [RulesetRule EXCEPT !.Action = "block", !.Enabled = TRUE,
     !.Expression = "(http.user_agent contains \"bot\")",
     !.Description = "block bad bots"]

ScoreRule ==
  [RulesetRule EXCEPT !.ID = "e3a567afc347477d9702d9047e97d760", !.Version = "1",
     !.Action = "score", !.Expression = "true", !.Ref = "ref-1",
     !.LastUpdated = Ptr("t1"), !.ScoreThreshold = 40]

RuleChoices ==
  {RulesetRule, BlockRule, ScoreRule,
   [ScoreRule EXCEPT !.LastUpdated = Ptr(YearOutOfRange)]}
  \cup {[BlockRule EXCEPT !.Action = "execute", !.ActionParameters = a] :
          a \in ActionParametersChoices}
  \cup {[ScoreRule EXCEPT !.Categories = c] : c \in CategoryChoices}

\* the sequences over S of length at most n
RECURSIVE SeqsUpTo(_, _)
SeqsUpTo(S, n) ==
  IF n = 0 THEN {<<>>}
  ELSE LET shorter == SeqsUpTo(S, n - 1)
       IN  shorter \cup {Append(s, x) : s \in {t \in shorter : Len(t) = n - 1}, x \in S}

RulesChoices == {NilSlice} \cup {Slice(s) : s \in SeqsUpTo(RuleChoices, MaxRules)}

CustomRuleset ==
  [Ruleset EXCEPT !.Name = "block-bad-bots", !.Description = "my ruleset",
     !.Kind = "custom", !.Phase = "http_request_firewall_custom"]

RulesetChoices ==
  {[base EXCEPT !.Rules = r] :
     base \in {Ruleset, CustomRuleset,
               [CustomRuleset EXCEPT !.ID = "2c0fc9fa937b11eaa1b71c4d701ab86e",
                  !.Version = "2", !.LastUpdated = Ptr("t2"),
                  !.Kind = "zone", !.Phase = "http_request_transform"],
               [CustomRuleset EXCEPT !.LastUpdated = Ptr(YearOutOfRange)]},
     r \in RulesChoices}

(***************************************************************************)
(* Response bodies and errors.                                             *)
(*                                                                         *)
(* A body ([]byte) is <<"raw", text>> for bytes that are not a JSON text   *)
(* (text: the sequence of its pieces, empty for a nil or empty body) or    *)
(* <<"json", j>> for the bytes of the JSON text whose parse is j.          *)
(***************************************************************************)
Raw(text) == <<"raw", text>>
Json(j) == <<"json", j>>
NilBody == Raw(<<>>)

\* the elements of a finite set of strings, one after the other
RECURSIVE SetToSeq(_)
SetToSeq(S) ==
  IF S = {} THEN <<>>
  ELSE LET x == CHOOSE x \in S : TRUE IN <<x>> \o SetToSeq(S \ {x})

\* the text of a JSON value, as a sequence of pieces
RECURSIVE JSONText(_)
RECURSIVE JSONElements(_, _)
RECURSIVE JSONMembers(_, _)
JSONText(j) ==
  CASE j[1] = "null" -> <<"null">>
    [] j[1] = "bool" -> <<IF j[2] THEN "true" ELSE "false">>
    [] j[1] = "num" -> <<ToString(j[2])>>
    [] j[1] = "frac" -> <<j[2]>>
    [] j[1] = "str" -> <<"\"", j[2], "\"">>
    [] j[1] = "arr" -> <<"[">> \o JSONElements(j[2], 1) \o <<"]">>
    [] OTHER -> <<"{">> \o JSONMembers(j[2], SetToSeq(DOMAIN j[2])) \o <<"}">>
JSONElements(a, i) ==
  IF i > Len(a) THEN <<>>
  ELSE (IF i > 1 THEN <<",">> ELSE <<>>) \o JSONText(a[i]) \o JSONElements(a, i + 1)
JSONMembers(o, keys) ==
  IF keys = <<>> THEN <<>>
  ELSE <<"\"", Head(keys), "\"", ":">> \o JSONText(o[Head(keys)])
       \o (IF Len(keys) > 1 THEN <<",">> ELSE <<>>) \o JSONMembers(o, Tail(keys))

\* string(res)
BodyText(res) == IF res[1] = "raw" THEN res[2] ELSE JSONText(res[2])
\* len(res)
BodyLen(res) == Len(BodyText(res))

\* the markers of errors.go
errMakeRequestError == "error from makeRequest"
errUnmarshalError == "error unmarshalling the JSON response"

\* errors.New(text)
New(text) == <<"new", text>>
\* errors.Wrap(err, message): nil for a nil err
Wrap(err, message) == IF IsNil(err) THEN NilErr ELSE <<"wrap", <<message, err>> >>

\* err.Error()
RECURSIVE ErrorText(_)
ErrorText(err) ==
  CASE err[1] = "new" -> err[2]
    [] err[1] = "wrap" -> <<err[2][1], ": ">> \o ErrorText(err[2][2])
    [] OTHER -> <<err[2]>>

\* strings.Contains(s, sub) on sequences of pieces
Contains(s, sub) ==
  \E i \in 0..(Len(s) - Len(sub)) : \A k \in 1..Len(sub) : s[i + k] = sub[k]

\* the error was made by errors.Wrap(_, marker)
CarriesMarker(err, marker) == err[1] = "wrap" /\ err[2][1] = marker

(***************************************************************************)
(* The response envelopes.  Response, the common part every envelope       *)
(* embeds, is declared outside rulesets.go: it is taken here to hold the   *)
(* success flag and the error and message lists of the API's envelope.     *)
(***************************************************************************)
ResponseInfo == [Code |-> 0, Message |-> ""]
Response == [Success |-> FALSE, Errors |-> NilSlice, Messages |-> NilSlice]

DecResponseInfo(j, old) ==
  IF j[1] # "obj" THEN old
  ELSE [Code |-> DecField(j, "code", old.Code, DecInt),
        Message |-> DecField(j, "message", old.Message, DecString)]
ErrResponseInfo(j) ==
  ErrStruct(j, <<ErrField(j, "code", ErrInt), ErrField(j, "message", ErrString)>>)

DecResponseInfos(j, old) ==
  CASE j[1] = "null" -> NilSlice
    [] j[1] = "arr" -> Slice([i \in 1..Len(j[2]) |-> DecResponseInfo(j[2][i], ResponseInfo)])
    [] OTHER -> old
ErrResponseInfos(j) == ErrSlice(j, ErrResponseInfo)

DecResponse(j, old) ==
  [Success |-> DecField(j, "success", old.Success, DecBool),
   Errors |-> DecField(j, "errors", old.Errors, DecResponseInfos),
   Messages |-> DecField(j, "messages", old.Messages, DecResponseInfos)]

\* an envelope whose Result field is decoded by DecResult
DecEnvelope(j, old, DecResult(_, _)) ==
  IF j[1] # "obj" THEN old
  ELSE [Response |-> DecResponse(j, old.Response),
        Result |-> DecField(j, "result", old.Result, DecResult)]
ErrEnvelope(j, ErrResult(_)) ==
  ErrStruct(j, <<ErrField(j, "success", ErrBool),
                 ErrField(j, "errors", ErrResponseInfos),
                 ErrField(j, "messages", ErrResponseInfos),
                 ErrField(j, "result", ErrResult)>>)

\* a Ruleset held in a Result field or returned: tagged, as a slice is, so that
\* a Ruleset and a []Ruleset are values that can be told apart
Val(ruleset) == <<"Ruleset", ruleset>>
DecResultRuleset(j, old) == Val(DecRuleset(j, old[2]))

ListRulesetResponse == [Response |-> Response, Result |-> NilSlice]
GetRulesetResponse == [Response |-> Response, Result |-> Val(Ruleset)]
CreateRulesetResponse == [Response |-> Response, Result |-> Val(Ruleset)]
UpdateRulesetResponse == [Response |-> Response, Result |-> Val(Ruleset)]

\* json.Unmarshal(res, &result) for an envelope whose Result is a []Ruleset:
\* bytes that are no JSON text are a syntax error and leave result untouched
UnmarshalRulesets(res, result) ==
  IF res[1] = "raw" THEN Decoded(result, SyntaxError)
  ELSE Decoded(DecEnvelope(res[2], result, DecRulesets),
               ErrEnvelope(res[2], ErrRulesets))

\* json.Unmarshal(res, &result) for an envelope whose Result is a Ruleset
UnmarshalRuleset(res, result) ==
  IF res[1] = "raw" THEN Decoded(result, SyntaxError)
  ELSE Decoded(DecEnvelope(res[2], result, DecResultRuleset),
               ErrEnvelope(res[2], ErrRuleset))

(***************************************************************************)
(* What the executor may answer.                                           *)
(***************************************************************************)
Envelope(success, result) ==
  ObjOf(Member("success", success) \cup Member("errors", JArr(<<>>))
        \cup Member("messages", JArr(<<>>)) \cup Member("result", result))

FirewallRulesetJSON ==
  ObjOf(Member("id", JStr("70339d97bdb34195bbf054b1ebe81f76"))
        \cup Member("name", JStr("Cloudflare Normalization Ruleset"))
        \cup Member("description", JStr("Created by the Cloudflare security team"))
        \cup Member("kind", JStr("managed")) \cup Member("version", JStr("1"))
        \cup Member("last_updated", JStr(RFC3339("t1")))
        \cup Member("phase", JStr("http_request_firewall_custom")))

TransformRulesetJSON ==
  ObjOf(Member("id", JStr("2c0fc9fa937b11eaa1b71c4d701ab86e"))
        \cup Member("name", JStr("my example ruleset"))
        \cup Member("description", JStr(""))
        \cup Member("kind", JStr("root")) \cup Member("version", JStr("2"))
        \cup Member("last_updated", JStr(RFC3339("t2")))
        \cup Member("phase", JStr("http_request_transform"))
        \cup Member("rules",
               JArr(<<MarshalRulesetRule(ScoreRule),
                      ObjOf(Member("action", JStr("rewrite"))
                            \cup Member("expression", JStr("true"))
                            \cup Member("enabled", JBool(FALSE))
                            \cup Member("categories", JArr(<<>>))
                            \cup Member("action_parameters",
                                   ObjOf(Member("headers", JObj(<<>>))
                                         \cup Member("products", JNull))))>>)))

\* a ruleset object with a well-typed id and a name of the wrong type
IllTypedRulesetJSON ==
  ObjOf(Member("id", JStr("9c2a4b6e")) \cup Member("name", JNum(5))
        \cup Member("rules", JArr(<<MarshalRulesetRule(BlockRule)>>)))

ErrorEnvelopeJSON ==
  ObjOf(Member("success", JBool(FALSE))
        \cup Member("errors",
               JArr(<<ObjOf(Member("code", JNum(10000))
                            \cup Member("message", JStr("ruleset not found")))>>))
        \cup Member("messages", JArr(<<>>)) \cup Member("result", JNull))

JsonDocuments ==
  {JNull, JArr(<<>>), JObj(<<>>), ErrorEnvelopeJSON,
   Envelope(JBool(TRUE), FirewallRulesetJSON),
   Envelope(JBool(TRUE), TransformRulesetJSON),
   Envelope(JBool(FALSE), TransformRulesetJSON),
   Envelope(JStr("yes"), FirewallRulesetJSON),
   Envelope(JBool(TRUE), IllTypedRulesetJSON),
   Envelope(JBool(TRUE), JStr("deleted")),
   Envelope(JBool(TRUE), JArr(<<>>)),
   Envelope(JBool(TRUE), JArr(<<FirewallRulesetJSON, TransformRulesetJSON>>)),
   Envelope(JBool(FALSE), JArr(<<TransformRulesetJSON, FirewallRulesetJSON>>)),
   Envelope(JBool(TRUE), JArr(<<FirewallRulesetJSON, IllTypedRulesetJSON>>))}

RawTexts == {<<>>, <<"x">>, <<"<html>", "502 Bad Gateway", "</html>">>}

Bodies == {Raw(t) : t \in RawTexts} \cup {Json(j) : j \in JsonDocuments}

\* the errors of the executor: the request failed in the network, was
\* refused, or was answered with a status that is not a success
TransportErrors ==
  {<<"transport", "dial tcp: connection refused">>,
   <<"transport", "HTTP status 403: authentication error">>,
   <<"transport", "HTTP status 404: ruleset not found">>}

\* (res, err) of the executor
Answer(res, err) == [res |-> res, err |-> err]

Answers ==
  {Answer(b, NilErr) : b \in Bodies}
  \cup {Answer(b, e) : b \in {NilBody, Raw(<<"x">>), Json(ErrorEnvelopeJSON)},
                       e \in TransportErrors}

(***************************************************************************)
(* The client.                                                             *)
(*                                                                         *)
(* Each caller runs one public operation at a time.  An operation builds   *)
(* its request and hands it to the executor (pc "waiting"), the executor   *)
(* answers (pc "resumed"), the operation decodes the answer into its local *)
(* result (pc "decoded") and returns (pc "done"); the caller then takes    *)
(* the returned values and is free to call again (pc "idle").              *)
(***************************************************************************)
Callers == {"c1", "c2"}

VARIABLES
  pc,         \* pc[c]: where caller c's operation stands
  entry,      \* entry[c]: the public operation c called and its arguments
  call,       \* call[c]: the private function running for c, and its uri
  requests,   \* requests[c]: the requests c's operation handed to the executor
  response,   \* response[c]: (res, err) the executor returned to c's operation
  result,     \* result[v]: the local variable `result` named v
  inspected,  \* inspected[c]: how often c's operation read res
  ret,        \* ret[c]: (value, err) c's operation returned
  rtPc,       \* the round trip: where it stands
  rtIn,       \* the Ruleset encoded
  rtData,     \* (data, err) of json.Marshal
  rtOut       \* (value, err) of json.Unmarshal

clientVars == <<pc, entry, call, requests, response, result, inspected, ret>>
rtVars == <<rtPc, rtIn, rtData, rtOut>>
vars == <<pc, entry, call, requests, response, result, inspected, ret,
          rtPc, rtIn, rtData, rtOut>>

\* the route roots, declared outside rulesets.go
ZoneRouteRoot == <<"zones">>
AccountRouteRoot == <<"accounts">>

\* fmt.Sprintf for a format of literal pieces and %s verbs
RECURSIVE Sprintf(_, _)
Sprintf(format, args) ==
  IF format = <<>> THEN <<>>
  ELSE IF Head(format) = "%s"
       THEN Head(args) \o Sprintf(Tail(format), Tail(args))
       ELSE <<Head(format)>> \o Sprintf(Tail(format), args)

\* the params argument of makeRequestContext
NoParams == <<"nil", "">>
RulesetParams(ruleset) == <<"Ruleset", ruleset>>
UpdateParams(payload) == <<"UpdateRulesetRequest", payload>>

Request(method, uri, params) == [method |-> method, uri |-> uri, params |-> params]
Returned(value, err) == [value |-> value, err |-> err]

NoEntry ==
  [name |-> "", id |-> <<>>, rulesetID |-> <<>>, ruleset |-> Ruleset,
   description |-> "", rules |-> NilSlice]
NoCall == [fn |-> "", uri |-> <<>>]
NoAnswer == Answer(NilBody, NilErr)
\* what an operation that returns only an error returns beside it
NoValue == <<"none", "">>
NoReturn == Returned(NoValue, NilErr)

\* the public operation records what it was called with
Enter(c, name, id, rulesetID, ruleset, description, rules) ==
  entry' = [entry EXCEPT ![c] =
              [name |-> name, id |-> id, rulesetID |-> rulesetID,
               ruleset |-> ruleset, description |-> description, rules |-> rules]]

\* api.makeRequestContext(ctx, method, uri, params): the request is handed to
\* the executor and the function blocks
makeRequestContextCall(c, method, uri, params) ==
  /\ requests' = [requests EXCEPT ![c] = Append(@, Request(method, uri, params))]
  /\ pc' = [pc EXCEPT ![c] = "waiting"]

\* return value, err
Return(c, r) ==
  /\ ret' = [ret EXCEPT ![c] = r]
  /\ pc' = [pc EXCEPT ![c] = "done"]

\* ResultVar with `result` declared once for the package instead of per call
ResultVarShared(c) == "c1"

\* the local variable `result` of caller c's running function
ResultVar(c) == c

\* json.Unmarshal(res, &result) ran: result holds what it left, res was read
Unmarshalled(c, d) ==
  /\ result' = [result EXCEPT ![ResultVar(c)] = d.v]
  /\ inspected' = [inspected EXCEPT ![c] = @ + 1]

(***************************************************************************)
(* listRulesets                                                            *)
(***************************************************************************)
listRulesetsURI(identifierType, identifier) ==
  Sprintf(<<"/", "%s", "/", "%s", "/", "rulesets">>, <<identifierType, identifier>>)

\* up to the call of the executor
listRulesets(c, identifierType, identifier) ==
  /\ pc[c] = "idle"
  /\ call' = [call EXCEPT ![c] =
               [fn |-> "listRulesets", uri |-> listRulesetsURI(identifierType, identifier)]]
  /\ makeRequestContextCall(c, "GET", listRulesetsURI(identifierType, identifier), NoParams)
  /\ UNCHANGED <<response, result, inspected, ret, rtVars>>

\* return []Ruleset{}, err
listRulesetsFailed(err) == Returned(Slice(<<>>), err)
\* return the empty value, errors.Wrap(err, errUnmarshalError)
listRulesetsUndecodable(result_, err) ==
  Returned(Slice(<<>>), Wrap(err, errUnmarshalError))
\* listRulesetsDecoded leaving out the rulesets the caller cannot edit
listRulesetsDecodedUnmanaged(result_) ==
  Returned(IF IsNil(result_.Result) THEN NilSlice
           ELSE Slice(SelectSeq(result_.Result[2], LAMBDA r : r.Kind # "managed")),
           NilErr)
\* return result.Result, nil
listRulesetsDecoded(result_) == Returned(result_.Result, NilErr)

\* from the executor's answer to the decoded result, or to the return of an error
listRulesetsUnmarshal(c) ==
  /\ pc[c] = "resumed" /\ call[c].fn = "listRulesets"
  /\ IF ~IsNil(response[c].err)
     THEN /\ Return(c, listRulesetsFailed(response[c].err))
          /\ UNCHANGED <<result, inspected>>
     ELSE LET d == UnmarshalRulesets(response[c].res, ListRulesetResponse)
          IN  /\ Unmarshalled(c, d)
              /\ IF ~IsNil(d.err)
                 THEN Return(c, listRulesetsUndecodable(d.v, d.err))
                 ELSE /\ pc' = [pc EXCEPT ![c] = "decoded"]
                      /\ UNCHANGED ret
  /\ UNCHANGED <<entry, call, requests, response, rtVars>>

\* the return of the decoded result
listRulesetsReturn(c) ==
  /\ pc[c] = "decoded" /\ call[c].fn = "listRulesets"
  /\ Return(c, listRulesetsDecoded(result[ResultVar(c)]))
  /\ UNCHANGED <<entry, call, requests, response, result, inspected, rtVars>>

(***************************************************************************)
(* getRuleset                                                            *)
(***************************************************************************)
getRulesetURI(identifierType, identifier, rulesetID) ==
  Sprintf(<<"/", "%s", "/", "%s", "/", "rulesets", "/", "%s">>, <<identifierType, identifier, rulesetID>>)

\* up to the call of the executor
getRuleset(c, identifierType, identifier, rulesetID) ==
  /\ pc[c] = "idle"
  /\ call' = [call EXCEPT ![c] =
               [fn |-> "getRuleset", uri |-> getRulesetURI(identifierType, identifier, rulesetID)]]
  /\ makeRequestContextCall(c, "GET", getRulesetURI(identifierType, identifier, rulesetID), NoParams)
  /\ UNCHANGED <<response, result, inspected, ret, rtVars>>

\* return Ruleset{}, err
getRulesetFailed(err) == Returned(Val(Ruleset), err)
\* getRulesetUndecodable returning what was decoded beside the error
getRulesetUndecodablePartial(result_, err) ==
  Returned(result_.Result, Wrap(err, errUnmarshalError))
\* return the empty value, errors.Wrap(err, errUnmarshalError)
getRulesetUndecodable(result_, err) ==
  Returned(Val(Ruleset), Wrap(err, errUnmarshalError))
\* return result.Result, nil
getRulesetDecoded(result_) == Returned(result_.Result, NilErr)

\* from the executor's answer to the decoded result, or to the return of an error
getRulesetUnmarshal(c) ==
  /\ pc[c] = "resumed" /\ call[c].fn = "getRuleset"
  /\ IF ~IsNil(response[c].err)
     THEN /\ Return(c, getRulesetFailed(response[c].err))
          /\ UNCHANGED <<result, inspected>>
     ELSE LET d == UnmarshalRuleset(response[c].res, GetRulesetResponse)
          IN  /\ Unmarshalled(c, d)
              /\ IF ~IsNil(d.err)
                 THEN Return(c, getRulesetUndecodable(d.v, d.err))
                 ELSE /\ pc' = [pc EXCEPT ![c] = "decoded"]
                      /\ UNCHANGED ret
  /\ UNCHANGED <<entry, call, requests, response, rtVars>>

\* the return of the decoded result
getRulesetReturn(c) ==
  /\ pc[c] = "decoded" /\ call[c].fn = "getRuleset"
  /\ Return(c, getRulesetDecoded(result[ResultVar(c)]))
  /\ UNCHANGED <<entry, call, requests, response, result, inspected, rtVars>>

(***************************************************************************)
(* createRuleset                                                            *)
(***************************************************************************)
createRulesetURI(identifierType, identifier) ==
  Sprintf(<<"/", "%s", "/", "%s", "/", "rulesets">>, <<identifierType, identifier>>)

\* up to the call of the executor
createRuleset(c, identifierType, identifier, ruleset) ==
  /\ pc[c] = "idle"
  /\ call' = [call EXCEPT ![c] =
               [fn |-> "createRuleset", uri |-> createRulesetURI(identifierType, identifier)]]
  /\ makeRequestContextCall(c, "POST", createRulesetURI(identifierType, identifier), RulesetParams(ruleset))
  /\ UNCHANGED <<response, result, inspected, ret, rtVars>>

\* return Ruleset{}, err
createRulesetFailed(err) == Returned(Val(Ruleset), err)
\* createRulesetUndecodable returning the decoder's error as it is
createRulesetUndecodableBare(result_, err) == Returned(Val(Ruleset), err)
\* return the empty value, errors.Wrap(err, errUnmarshalError)
createRulesetUndecodable(result_, err) ==
  Returned(Val(Ruleset), Wrap(err, errUnmarshalError))
\* return result.Result, nil
createRulesetDecoded(result_) == Returned(result_.Result, NilErr)

\* from the executor's answer to the decoded result, or to the return of an error
createRulesetUnmarshal(c) ==
  /\ pc[c] = "resumed" /\ call[c].fn = "createRuleset"
  /\ IF ~IsNil(response[c].err)
     THEN /\ Return(c, createRulesetFailed(response[c].err))
          /\ UNCHANGED <<result, inspected>>
     ELSE LET d == UnmarshalRuleset(response[c].res, CreateRulesetResponse)
          IN  /\ Unmarshalled(c, d)
              /\ IF ~IsNil(d.err)
                 THEN Return(c, createRulesetUndecodable(d.v, d.err))
                 ELSE /\ pc' = [pc EXCEPT ![c] = "decoded"]
                      /\ UNCHANGED ret
  /\ UNCHANGED <<entry, call, requests, response, rtVars>>

\* the return of the decoded result
createRulesetReturn(c) ==
  /\ pc[c] = "decoded" /\ call[c].fn = "createRuleset"
  /\ Return(c, createRulesetDecoded(result[ResultVar(c)]))
  /\ UNCHANGED <<entry, call, requests, response, result, inspected, rtVars>>

(***************************************************************************)
(* updateRuleset                                                            *)
(***************************************************************************)
updateRulesetURI(identifierType, identifier, rulesetID) ==
  Sprintf(<<"/", "%s", "/", "%s", "/", "rulesets", "/", "%s">>, <<identifierType, identifier, rulesetID>>)

\* updateRulesetPayload sending a whole Ruleset
updateRulesetPayloadWhole(description, rules) ==
  [Ruleset EXCEPT !.Description = description, !.Rules = rules]

\* payload := UpdateRulesetRequest{Description: description, Rules: rules}
updateRulesetPayload(description, rules) ==
  [Description |-> description, Rules |-> rules]

\* up to the call of the executor
updateRuleset(c, identifierType, identifier, rulesetID, description, rules) ==
  /\ pc[c] = "idle"
  /\ call' = [call EXCEPT ![c] =
               [fn |-> "updateRuleset", uri |-> updateRulesetURI(identifierType, identifier, rulesetID)]]
  /\ makeRequestContextCall(c, "PUT", updateRulesetURI(identifierType, identifier, rulesetID), UpdateParams(updateRulesetPayload(description, rules)))
  /\ UNCHANGED <<response, result, inspected, ret, rtVars>>

\* updateRulesetFailed wrapping the executor's error
updateRulesetFailedWrapped(err) ==
  Returned(Val(Ruleset), Wrap(err, errMakeRequestError))
\* return Ruleset{}, err
updateRulesetFailed(err) == Returned(Val(Ruleset), err)
\* return the empty value, errors.Wrap(err, errUnmarshalError)
updateRulesetUndecodable(result_, err) ==
  Returned(Val(Ruleset), Wrap(err, errUnmarshalError))
\* return result.Result, nil
updateRulesetDecoded(result_) == Returned(result_.Result, NilErr)

\* from the executor's answer to the decoded result, or to the return of an error
updateRulesetUnmarshal(c) ==
  /\ pc[c] = "resumed" /\ call[c].fn = "updateRuleset"
  /\ IF ~IsNil(response[c].err)
     THEN /\ Return(c, updateRulesetFailed(response[c].err))
          /\ UNCHANGED <<result, inspected>>
     ELSE LET d == UnmarshalRuleset(response[c].res, UpdateRulesetResponse)
          IN  /\ Unmarshalled(c, d)
              /\ IF ~IsNil(d.err)
                 THEN Return(c, updateRulesetUndecodable(d.v, d.err))
                 ELSE /\ pc' = [pc EXCEPT ![c] = "decoded"]
                      /\ UNCHANGED ret
  /\ UNCHANGED <<entry, call, requests, response, rtVars>>

\* the return of the decoded result
updateRulesetReturn(c) ==
  /\ pc[c] = "decoded" /\ call[c].fn = "updateRuleset"
  /\ Return(c, updateRulesetDecoded(result[ResultVar(c)]))
  /\ UNCHANGED <<entry, call, requests, response, result, inspected, rtVars>>

(***************************************************************************)
(* deleteRuleset                                                           *)
(***************************************************************************)
deleteRulesetURI(identifierType, identifier, rulesetID) ==
  Sprintf(<<"/", "%s", "/", "%s", "/", "rulesets", "/", "%s">>,
          <<identifierType, identifier, rulesetID>>)

\* up to the call of the executor
deleteRuleset(c, identifierType, identifier, rulesetID) ==
  /\ pc[c] = "idle"
  /\ call' = [call EXCEPT ![c] =
               [fn |-> "deleteRuleset",
                uri |-> deleteRulesetURI(identifierType, identifier, rulesetID)]]
  /\ makeRequestContextCall(c, "DELETE",
                            deleteRulesetURI(identifierType, identifier, rulesetID),
                            NoParams)
  /\ UNCHANGED <<response, result, inspected, ret, rtVars>>

\* return err
deleteRulesetFailed(err) == Returned(NoValue, err)
\* deleteRulesetChecked reading the body and accepting an envelope that
\* reports success
deleteRulesetCheckedParsed(res) ==
  IF BodyLen(res) > 0
     /\ ~(res[1] = "json" /\ HasMember(res[2], "success")
          /\ res[2][2]["success"] = JBool(TRUE))
  THEN Returned(NoValue, Wrap(New(BodyText(res)), errMakeRequestError))
  ELSE Returned(NoValue, NilErr)
\* a body of length above zero is an error that carries its text
deleteRulesetChecked(res) ==
  IF BodyLen(res) > 0
  THEN Returned(NoValue, Wrap(New(BodyText(res)), errMakeRequestError))
  ELSE Returned(NoValue, NilErr)

\* deleteRulesetReturn issuing the request once more when the executor failed
deleteRulesetReturnRetry(c) ==
  /\ pc[c] = "resumed" /\ call[c].fn = "deleteRuleset"
  /\ IF ~IsNil(response[c].err) /\ Len(requests[c]) < 2
     THEN /\ makeRequestContextCall(c, "DELETE", call[c].uri, NoParams)
          /\ UNCHANGED <<inspected, ret>>
     ELSE /\ Return(c, IF ~IsNil(response[c].err)
                       THEN Returned(NoValue, response[c].err)
                       ELSE Returned(NoValue, NilErr))
          /\ requests' = requests
          /\ inspected' = [inspected EXCEPT ![c] = @ + 1]
  /\ UNCHANGED <<entry, call, response, result, rtVars>>

\* from the executor's answer to the return
deleteRulesetReturn(c) ==
  /\ pc[c] = "resumed" /\ call[c].fn = "deleteRuleset"
  /\ IF ~IsNil(response[c].err)
     THEN /\ Return(c, deleteRulesetFailed(response[c].err))
          /\ UNCHANGED inspected
     ELSE /\ Return(c, deleteRulesetChecked(response[c].res))
          /\ inspected' = [inspected EXCEPT ![c] = @ + 1]
  /\ UNCHANGED <<entry, call, requests, response, result, rtVars>>

(***************************************************************************)
(* The public operations.                                                  *)
(***************************************************************************)
ListZoneRulesets(c, zoneID) ==
  /\ Enter(c, "ListZoneRulesets", zoneID, <<>>, Ruleset, "", NilSlice)
  /\ listRulesets(c, ZoneRouteRoot, zoneID)

ListAccountRulesets(c, accountID) ==
  /\ Enter(c, "ListAccountRulesets", accountID, <<>>, Ruleset, "", NilSlice)
  /\ listRulesets(c, AccountRouteRoot, accountID)

GetZoneRuleset(c, zoneID, rulesetID) ==
  /\ Enter(c, "GetZoneRuleset", zoneID, rulesetID, Ruleset, "", NilSlice)
  /\ getRuleset(c, ZoneRouteRoot, zoneID, rulesetID)

\* GetAccountRuleset copied from GetZoneRuleset with the route root left as it was
GetAccountRulesetZoneRoot(c, accountID, rulesetID) ==
  /\ Enter(c, "GetAccountRuleset", accountID, rulesetID, Ruleset, "", NilSlice)
  /\ getRuleset(c, ZoneRouteRoot, accountID, rulesetID)

GetAccountRuleset(c, accountID, rulesetID) ==
  /\ Enter(c, "GetAccountRuleset", accountID, rulesetID, Ruleset, "", NilSlice)
  /\ getRuleset(c, AccountRouteRoot, accountID, rulesetID)

CreateZoneRuleset(c, zoneID, ruleset) ==
  /\ Enter(c, "CreateZoneRuleset", zoneID, <<>>, ruleset, "", NilSlice)
  /\ createRuleset(c, ZoneRouteRoot, zoneID, ruleset)

CreateAccountRuleset(c, accountID, ruleset) ==
  /\ Enter(c, "CreateAccountRuleset", accountID, <<>>, ruleset, "", NilSlice)
  /\ createRuleset(c, AccountRouteRoot, accountID, ruleset)

DeleteZoneRuleset(c, zoneID, rulesetID) ==
  /\ Enter(c, "DeleteZoneRuleset", zoneID, rulesetID, Ruleset, "", NilSlice)
  /\ deleteRuleset(c, ZoneRouteRoot, zoneID, rulesetID)

DeleteAccountRuleset(c, accountID, rulesetID) ==
  /\ Enter(c, "DeleteAccountRuleset", accountID, rulesetID, Ruleset, "", NilSlice)
  /\ deleteRuleset(c, AccountRouteRoot, accountID, rulesetID)

UpdateZoneRuleset(c, zoneID, rulesetID, description, rules) ==
  /\ Enter(c, "UpdateZoneRuleset", zoneID, rulesetID, Ruleset, description, rules)
  /\ updateRuleset(c, ZoneRouteRoot, zoneID, rulesetID, description, rules)

UpdateAccountRuleset(c, accountID, rulesetID, description, rules) ==
  /\ Enter(c, "UpdateAccountRuleset", accountID, rulesetID, Ruleset, description, rules)
  /\ updateRuleset(c, AccountRouteRoot, accountID, rulesetID, description, rules)

(***************************************************************************)
(* The executor and the caller.                                            *)
(***************************************************************************)
\* the executor returns (res, err) to the function blocked on it
makeRequestContext(c, answer) ==
  /\ pc[c] = "waiting"
  /\ response' = [response EXCEPT ![c] = answer]
  /\ pc' = [pc EXCEPT ![c] = "resumed"]
  /\ UNCHANGED <<entry, call, requests, result, inspected, ret, rtVars>>

\* the caller takes what the operation returned; the operation's frame is gone
Finish(c) ==
  /\ pc[c] = "done"
  /\ pc' = [pc EXCEPT ![c] = "idle"]
  /\ entry' = [entry EXCEPT ![c] = NoEntry]
  /\ call' = [call EXCEPT ![c] = NoCall]
  /\ requests' = [requests EXCEPT ![c] = <<>>]
  /\ response' = [response EXCEPT ![c] = NoAnswer]
  /\ inspected' = [inspected EXCEPT ![c] = 0]
  /\ ret' = [ret EXCEPT ![c] = NoReturn]
  /\ result' = [result EXCEPT ![ResultVar(c)] = GetRulesetResponse]
  /\ UNCHANGED rtVars

(***************************************************************************)
(* The round trip of a Ruleset through json.Marshal and json.Unmarshal.    *)
(***************************************************************************)
Marshalled(data, err) == [data |-> data, err |-> err]
MarshalError == <<"json", "MarshalerError">>

\* json.Marshal(ruleset)
jsonMarshal(ruleset) ==
  IF RulesetEncodable(ruleset) THEN Marshalled(Json(MarshalRuleset(ruleset)), NilErr)
  ELSE Marshalled(NilBody, MarshalError)

\* json.Unmarshal(data, &ruleset) into a zero Ruleset
jsonUnmarshal(data) ==
  IF data[1] = "raw" THEN Decoded(Ruleset, SyntaxError)
  ELSE Decoded(DecRuleset(data[2], Ruleset), ErrRuleset(data[2]))

RoundTripMarshal ==
  /\ rtPc = "value"
  /\ rtData' = jsonMarshal(rtIn)
  /\ rtPc' = IF IsNil(jsonMarshal(rtIn).err) THEN "encoded" ELSE "failed"
  /\ UNCHANGED <<rtIn, rtOut, clientVars>>

RoundTripUnmarshal ==
  /\ rtPc = "encoded"
  /\ rtOut' = jsonUnmarshal(rtData.data)
  /\ rtPc' = "decoded"
  /\ UNCHANGED <<rtIn, rtData, clientVars>>

(***************************************************************************)
(* Specifications.                                                         *)
(***************************************************************************)
OwnerIDs == {<<"abc123">>, <<>>, <<"a", "/", "b">>}
RulesetIDs == {<<"2c0fc9fa937b11eaa1b71c4d701ab86e">>, <<>>}
Descriptions == {"", "updated description"}
RuleSequences ==
  {NilSlice, Slice(<<>>), Slice(<<BlockRule>>), Slice(<<BlockRule, ScoreRule>>),
   Slice(<<ScoreRule, BlockRule>>)}
NewRulesets ==
  {Ruleset, [CustomRuleset EXCEPT !.Rules = Slice(<<BlockRule>>)],
   [CustomRuleset EXCEPT !.ID = "2c0fc9fa937b11eaa1b71c4d701ab86e",
      !.Rules = Slice(<<ScoreRule, BlockRule>>)]}

InitClient ==
  /\ pc = [c \in Callers |-> "idle"]
  /\ entry = [c \in Callers |-> NoEntry]
  /\ call = [c \in Callers |-> NoCall]
  /\ requests = [c \in Callers |-> <<>>]
  /\ response = [c \in Callers |-> NoAnswer]
  /\ result = [c \in Callers |-> GetRulesetResponse]
  /\ inspected = [c \in Callers |-> 0]
  /\ ret = [c \in Callers |-> NoReturn]

NoRoundTrip ==
  /\ rtPc = "off"
  /\ rtIn = Ruleset
  /\ rtData = Marshalled(NilBody, NilErr)
  /\ rtOut = Decoded(Ruleset, NilErr)

\* caller c calls a public operation with arguments drawn from the given sets
Call(c, ids, rulesetIDs, rulesets, descriptions, ruleSequences) ==
  \/ \E id \in ids : ListZoneRulesets(c, id)
  \/ \E id \in ids : ListAccountRulesets(c, id)
  \/ \E id \in ids, rid \in rulesetIDs : GetZoneRuleset(c, id, rid)
  \/ \E id \in ids, rid \in rulesetIDs : GetAccountRuleset(c, id, rid)
  \/ \E id \in ids, rs \in rulesets : CreateZoneRuleset(c, id, rs)
  \/ \E id \in ids, rs \in rulesets : CreateAccountRuleset(c, id, rs)
  \/ \E id \in ids, rid \in rulesetIDs : DeleteZoneRuleset(c, id, rid)
  \/ \E id \in ids, rid \in rulesetIDs : DeleteAccountRuleset(c, id, rid)
  \/ \E id \in ids, rid \in rulesetIDs, d \in descriptions, r \in ruleSequences :
       UpdateZoneRuleset(c, id, rid, d, r)
  \/ \E id \in ids, rid \in rulesetIDs, d \in descriptions, r \in ruleSequences :
       UpdateAccountRuleset(c, id, rid, d, r)

\* caller c's operation, or the executor on its behalf, takes a step
Step(c, answers) ==
  \/ \E a \in answers : makeRequestContext(c, a)
  \/ listRulesetsUnmarshal(c)
  \/ listRulesetsReturn(c)
  \/ getRulesetUnmarshal(c)
  \/ getRulesetReturn(c)
  \/ createRulesetUnmarshal(c)
  \/ createRulesetReturn(c)
  \/ updateRulesetUnmarshal(c)
  \/ updateRulesetReturn(c)
  \/ deleteRulesetReturn(c)
  \/ Finish(c)

\* one caller, every argument and every answer
Init == InitClient /\ NoRoundTrip
Next ==
  \/ Call("c1", OwnerIDs, RulesetIDs, NewRulesets, Descriptions, RuleSequences)
  \/ Step("c1", Answers)
Spec == Init /\ [][Next]_vars

\* several callers at once
ConcurrentAnswers ==
  {Answer(Json(Envelope(JBool(TRUE), FirewallRulesetJSON)), NilErr),
   Answer(Json(Envelope(JBool(TRUE), TransformRulesetJSON)), NilErr),
   Answer(Json(Envelope(JBool(TRUE), JArr(<<TransformRulesetJSON>>))), NilErr),
   Answer(NilBody, NilErr),
   Answer(NilBody, <<"transport", "dial tcp: connection refused">>)}
NextConcurrent ==
  \E c \in Callers :
    \/ Call(c, {<<"abc123">>}, {<<"2c0fc9fa937b11eaa1b71c4d701ab86e">>},
            {CustomRuleset}, {"updated description"}, {Slice(<<BlockRule>>)})
    \/ Step(c, ConcurrentAnswers)
SpecConcurrent == Init /\ [][NextConcurrent]_vars

\* the round trip alone, over every input value
InitRoundTrip ==
  /\ InitClient
  /\ rtPc = "value"
  /\ rtIn \in RulesetChoices
  /\ rtData = Marshalled(NilBody, NilErr)
  /\ rtOut = Decoded(Ruleset, NilErr)
NextRoundTrip == RoundTripMarshal \/ RoundTripUnmarshal
SpecRoundTrip == InitRoundTrip /\ [][NextRoundTrip]_vars

(***************************************************************************)
(* Properties.                                                             *)
(***************************************************************************)
JsonFunctions == {"listRulesets", "getRuleset", "createRuleset", "updateRuleset"}
ZoneOperations ==
  {"ListZoneRulesets", "GetZoneRuleset", "CreateZoneRuleset", "UpdateZoneRuleset",
   "DeleteZoneRuleset"}
OperationsOnOne ==
  {"GetZoneRuleset", "GetAccountRuleset", "UpdateZoneRuleset", "UpdateAccountRuleset",
   "DeleteZoneRuleset", "DeleteAccountRuleset"}
UpdateOperations == {"UpdateZoneRuleset", "UpdateAccountRuleset"}

Returning(c) == pc[c] = "done"
TransportFailed(c) == ~IsNil(response[c].err)

\* json.Unmarshal of the body into the envelope of function fn
UnmarshalFor(fn, res) ==
  IF fn = "listRulesets" THEN UnmarshalRulesets(res, ListRulesetResponse)
  ELSE UnmarshalRuleset(res, GetRulesetResponse)
\* the executor succeeded and the body does not decode into fn's envelope
DecodeFailed(c) ==
  ~TransportFailed(c) /\ ~IsNil(UnmarshalFor(call[c].fn, response[c].res).err)
\* the executor succeeded and the body decodes into fn's envelope
DecodeSucceeded(c) ==
  ~TransportFailed(c) /\ IsNil(UnmarshalFor(call[c].fn, response[c].res).err)

\* the empty value of function fn
EmptyValue(fn) == IF fn = "listRulesets" THEN Slice(<<>>) ELSE Val(Ruleset)

\* C1: when the executor returns no error, Delete returns no error for a body
\* of length zero, and for a body of any other length, whatever it holds,
\* returns an error whose text contains the text of the body.
DeleteJudgesBodyByLength ==
  \A c \in Callers :
    (Returning(c) /\ call[c].fn = "deleteRuleset" /\ ~TransportFailed(c)) =>
      IF BodyLen(response[c].res) = 0 THEN IsNil(ret[c].err)
      ELSE /\ ~IsNil(ret[c].err)
           /\ Contains(ErrorText(ret[c].err), BodyText(response[c].res))

\* Delete returned an error for a body that is an envelope reporting success
DeleteRefusedSuccessEnvelope ==
  \E c \in Callers :
    /\ Returning(c) /\ entry[c].name = "DeleteAccountRuleset"
    /\ response[c] = Answer(Json(Envelope(JBool(TRUE), JStr("deleted"))), NilErr)
    /\ ~IsNil(ret[c].err)

\* C2: when the executor returns an error, the operation returns that very
\* error and has neither decoded nor otherwise read the response body.
TransportErrorReturnedUnchanged ==
  \A c \in Callers :
    (pc[c] \in {"resumed", "decoded", "done"} /\ TransportFailed(c)) =>
      /\ pc[c] # "decoded"
      /\ inspected[c] = 0
      /\ Returning(c) => ret[c].err = response[c].err

\* Update returned while the executor had failed with a body beside its error
UpdateReturnedTransportError ==
  \E c \in Callers :
    /\ Returning(c) /\ call[c].fn = "updateRuleset"
    /\ TransportFailed(c) /\ BodyLen(response[c].res) > 0

\* C3: a decode failure is returned wrapped with the decode marker, a
\* transport failure is returned without it, and so is a success.
DecodeFailureCarriesMarker ==
  \A c \in Callers :
    (Returning(c) /\ call[c].fn \in JsonFunctions) =>
      (CarriesMarker(ret[c].err, errUnmarshalError) <=> DecodeFailed(c))

\* Create returned after a body that is an envelope with an ill-typed member
CreateReturnedDecodeFailure ==
  \E c \in Callers :
    /\ Returning(c) /\ call[c].fn = "createRuleset"
    /\ response[c] = Answer(Json(Envelope(JStr("yes"), FirewallRulesetJSON)), NilErr)
    /\ CarriesMarker(ret[c].err, errUnmarshalError)

ExpectedMethod(name) ==
  CASE name \in {"ListZoneRulesets", "ListAccountRulesets",
                 "GetZoneRuleset", "GetAccountRuleset"} -> "GET"
    [] name \in {"CreateZoneRuleset", "CreateAccountRuleset"} -> "POST"
    [] name \in UpdateOperations -> "PUT"
    [] OTHER -> "DELETE"
ExpectedPath(e) ==
  <<"/", IF e.name \in ZoneOperations THEN "zones" ELSE "accounts", "/">>
  \o e.id \o <<"/", "rulesets">>
  \o (IF e.name \in OperationsOnOne THEN <<"/">> \o e.rulesetID ELSE <<>>)

\* C4: the request of each operation has the method of the operation and the
\* path /{scope}/{id}/rulesets, followed by /{rulesetId} for Get, Update and
\* Delete, with scope "zones" for the zone operations and "accounts" for the
\* account operations.
RequestHasMethodAndPath ==
  \A c \in Callers :
    pc[c] # "idle" =>
      /\ requests[c] # <<>>
      /\ requests[c][1].method = ExpectedMethod(entry[c].name)
      /\ requests[c][1].uri = ExpectedPath(entry[c])

\* an account operation on one ruleset issued its request, for an owner id
\* that holds a slash
AccountRequestIssued ==
  \E c \in Callers :
    /\ pc[c] = "waiting" /\ entry[c].name = "GetAccountRuleset"
    /\ entry[c].id = <<"a", "/", "b">> /\ entry[c].rulesetID # <<>>

\* C5: the body of Update holds the two fields description and rules and no
\* other, equal to the description and the rule sequence the caller passed,
\* the rules in the caller's order.
UpdateBodyHasTwoFields ==
  \A c \in Callers :
    (pc[c] # "idle" /\ entry[c].name \in UpdateOperations) =>
      /\ requests[c] # <<>>
      /\ requests[c][1].params[1] = "UpdateRulesetRequest"
      /\ LET payload == requests[c][1].params[2]
             body == MarshalUpdateRulesetRequest(payload)
         IN  /\ DOMAIN payload = {"Description", "Rules"}
             /\ payload.Description = entry[c].description
             /\ payload.Rules = entry[c].rules
             /\ DOMAIN body[2] = {"description", "rules"}
             /\ body[2]["description"] = JStr(entry[c].description)
             /\ IF IsNil(entry[c].rules) THEN body[2]["rules"] = JNull
                ELSE /\ body[2]["rules"][1] = "arr"
                     /\ Len(body[2]["rules"][2]) = Len(entry[c].rules[2])
                     /\ \A i \in 1..Len(entry[c].rules[2]) :
                          body[2]["rules"][2][i] = MarshalRulesetRule(entry[c].rules[2][i])

\* Update issued its request with two different rules
UpdateIssuedWithTwoRules ==
  \E c \in Callers :
    /\ pc[c] = "waiting" /\ entry[c].name = "UpdateZoneRuleset"
    /\ entry[c].rules = Slice(<<ScoreRule, BlockRule>>)
    /\ entry[c].description # ""

\* the value of the result member of the body, decoded for function fn
ResultMember(fn, res) ==
  IF HasMember(res[2], "result")
  THEN IF fn = "listRulesets" THEN DecRulesets(res[2][2]["result"], NilSlice)
       ELSE Val(DecRuleset(res[2][2]["result"], Ruleset))
  ELSE IF fn = "listRulesets" THEN NilSlice ELSE Val(Ruleset)

\* C6: when the executor succeeds and the body decodes into the envelope, the
\* operation returns no error and the value of the envelope's result member:
\* every ruleset of it, in its order, whatever the other members hold.
ResultMemberReturned ==
  \A c \in Callers :
    (Returning(c) /\ call[c].fn \in JsonFunctions /\ DecodeSucceeded(c)) =>
      /\ IsNil(ret[c].err)
      /\ ret[c].value = ResultMember(call[c].fn, response[c].res)

\* List returned two rulesets, the second of them with rules, from an
\* envelope that does not report success
ListReturnedTwoRulesets ==
  \E c \in Callers :
    /\ Returning(c) /\ call[c].fn = "listRulesets" /\ IsNil(ret[c].err)
    /\ response[c].res =
         Json(Envelope(JBool(FALSE), JArr(<<TransformRulesetJSON, FirewallRulesetJSON>>)))
    /\ LenOf(ret[c].value) = 2
    /\ ret[c].value[2][1].Phase = "http_request_transform"
    /\ ret[c].value[2][2].Phase = "http_request_firewall_custom"
    /\ LenOf(ret[c].value[2][1].Rules) = 2

\* a collection tagged omitempty is absent or holds something
AbsentOrNonEmpty(x) == IsNil(x) \/ LenOf(x) > 0
\* no category, product or header collection of the ruleset is empty but present
NoEmptyOmittedCollection(rs) ==
  IsNil(rs.Rules) \/
  \A i \in DOMAIN rs.Rules[2] :
    LET r == rs.Rules[2][i]
    IN  /\ AbsentOrNonEmpty(r.Categories)
        /\ IsNil(r.ActionParameters) \/
             (/\ AbsentOrNonEmpty(r.ActionParameters[2].Headers)
              /\ AbsentOrNonEmpty(r.ActionParameters[2].Products))

\* C7, as claimed: a Ruleset encoded to JSON and decoded back is equal to the
\* one encoded in all fields, for every Ruleset value.
RoundTripOfEveryRuleset ==
  rtPc = "decoded" => (IsNil(rtOut.err) /\ rtOut.v = rtIn)

\* C7, as the code has it: a Ruleset whose category, product and header
\* collections are each absent or non-empty, encoded to JSON and decoded
\* back, is equal to the one encoded in all fields, the rules in the same
\* order.
RoundTripOfCanonicalRuleset ==
  (rtPc = "decoded" /\ NoEmptyOmittedCollection(rtIn)) =>
    (IsNil(rtOut.err) /\ rtOut.v = rtIn)

\* a ruleset of two different rules went round, the first with an
\* action-parameters record with no field set, the second with a timestamp
\* and categories
TwoRulesWentRound ==
  /\ rtPc = "decoded"
  /\ rtIn.ID = "" /\ rtIn.Name # ""
  /\ rtIn.Rules =
       Slice(<<[BlockRule EXCEPT !.Action = "execute",
                  !.ActionParameters = Ptr(RulesetRuleActionParameters)],
               [ScoreRule EXCEPT !.Categories = Slice(<<"sqli", "xss">>)]>>)
  /\ rtOut.v = rtIn

\* C8: an operation has issued no request before it is called, and exactly
\* one from its call on, whatever the executor answers and whatever the
\* operation returns.
ExactlyOneRequest ==
  \A c \in Callers :
    /\ pc[c] = "idle" => Len(requests[c]) = 0
    /\ pc[c] # "idle" => Len(requests[c]) = 1

\* Delete returned the error of a failed executor call
DeleteReturnedTransportError ==
  \E c \in Callers :
    /\ Returning(c) /\ call[c].fn = "deleteRuleset" /\ TransportFailed(c)
    /\ ret[c].err = response[c].err

\* the request the operation called as e issues
RequestOf(e) ==
  LET root == IF e.name \in ZoneOperations THEN ZoneRouteRoot ELSE AccountRouteRoot
  IN  CASE e.name \in {"ListZoneRulesets", "ListAccountRulesets"} ->
             Request("GET", listRulesetsURI(root, e.id), NoParams)
        [] e.name \in {"GetZoneRuleset", "GetAccountRuleset"} ->
             Request("GET", getRulesetURI(root, e.id, e.rulesetID), NoParams)
        [] e.name \in {"CreateZoneRuleset", "CreateAccountRuleset"} ->
             Request("POST", createRulesetURI(root, e.id), RulesetParams(e.ruleset))
        [] e.name \in UpdateOperations ->
             Request("PUT", updateRulesetURI(root, e.id, e.rulesetID),
                     UpdateParams(updateRulesetPayload(e.description, e.rules)))
        [] OTHER ->
             Request("DELETE", deleteRulesetURI(root, e.id, e.rulesetID), NoParams)

\* what function fn returns for the executor's answer when it runs alone
ReturnOf(fn, answer) ==
  CASE ~IsNil(answer.err) ->
         Returned(IF fn = "deleteRuleset" THEN NoValue ELSE EmptyValue(fn), answer.err)
    [] fn = "deleteRuleset" -> deleteRulesetChecked(answer.res)
    [] ~IsNil(UnmarshalFor(fn, answer.res).err) ->
         Returned(EmptyValue(fn),
                  Wrap(UnmarshalFor(fn, answer.res).err, errUnmarshalError))
    [] OTHER -> Returned(UnmarshalFor(fn, answer.res).v.Result, NilErr)

\* C9: with several callers at once, the request of a call is the one its
\* own arguments give, and what it returns is what its function returns for
\* its own answer when it runs alone.
CallsDoNotInterfere ==
  \A c \in Callers :
    /\ pc[c] # "idle" => requests[c] = <<RequestOf(entry[c])>>
    /\ Returning(c) => ret[c] = ReturnOf(call[c].fn, response[c])

\* one caller's Get returned a ruleset while another caller's Update, answered
\* with another ruleset, stands between its decoding and its return
TwoCallsOverlapped ==
  /\ Returning("c2") /\ call["c2"].fn = "getRuleset" /\ IsNil(ret["c2"].err)
  /\ pc["c1"] = "decoded" /\ call["c1"].fn = "updateRuleset"
  /\ response["c1"] # response["c2"]

\* C10: whenever List, Get, Create or Update returns an error, the value
\* beside the error is the empty value: an empty sequence of rulesets for
\* List, a Ruleset with no field set for the others.
ErrorComesWithEmptyValue ==
  \A c \in Callers :
    (Returning(c) /\ call[c].fn \in JsonFunctions /\ ~IsNil(ret[c].err)) =>
      ret[c].value = EmptyValue(call[c].fn)

\* Get returned a decode error after part of the ruleset had been decoded
GetFailedAfterPartialDecode ==
  \E c \in Callers :
    /\ Returning(c) /\ call[c].fn = "getRuleset"
    /\ CarriesMarker(ret[c].err, errUnmarshalError)
    /\ result[ResultVar(c)].Result[2].ID # ""

=============================================================================
